---------------------------- MODULE Spec2Model ----------------------------
(***************************************************************************)
(* Calculate and Conquer (math-invaders): the game reducer of              *)
(* src/hooks/useGameEngine.ts together with the high-score store of        *)
(* utils/highScores.ts, as a state machine.                                *)
(*                                                                         *)
(* Time is counted in whole seconds, Date.now() in whole clock ticks.      *)
(* localStorage is modelled by the object that JSON.parse returns for its  *)
(* "calculate-and-conquer-high-scores" item: a function from score keys to *)
(* {score, date} records (the empty function when nothing is stored).      *)
(***************************************************************************)
EXTENDS Integers, Sequences, FiniteSets, TLC

VARIABLES
    state,      \* the GameState held by useReducer
    scores,     \* the HighScores object kept in localStorage
    now,        \* the value Date.now() returns
    hist,       \* history: the hits and timer expiries of the game since its
                \* START_GAME, and the answer the last dispatch resolved
    hook        \* what useGameEngine holds besides the state: the reveal
                \* timeout, the requested animation frame, lastTimeRef, and
                \* (history) what the collision check of the last frame did

vars == <<state, scores, now, hist, hook>>

---------------------------------------------------------------------------
(* Program constants                                                       *)

GAME_WIDTH == 800
GAME_HEIGHT == 600
PLAYER_SIZE == 60
ANSWER_SIZE == 50
BULLET_SPEED == 8
INITIAL_LIVES == 3
POINTS_PER_HIT == 10
POINTS_PER_LEVEL == 50
ANSWER_Y == 100
WRONG_ANSWER_COUNT == 3
ADD_SUB_MAX == 10
MUL_DIV_MAX == 12

Null == [null |-> TRUE]

Operations == {"addition", "subtraction", "multiplication", "division"}
Durations == {30, 60, 90}

---------------------------------------------------------------------------
(* Bounds of the model                                                     *)

MaxCorrect == 5     \* correct hits dispatched per game
MaxBullets == 1     \* bullets in flight when SHOOT is dispatched
MaxFlight == 1      \* UPDATE_BULLETS ticks a bullet is followed for
MaxNow == 1         \* last clock tick

\* Configurations as the menu builds them: handleStartGame leaves
\* specificNumber undefined (here: absent) unless the mode is "specific".
AllSettings(operation, duration) ==
    [operation |-> operation, practiceMode |-> "all", practiceDuration |-> duration]

SpecificSettings(operation, number, duration) ==
    [operation |-> operation, practiceMode |-> "specific",
     specificNumber |-> number, practiceDuration |-> duration]

\* The outcomes of the Math.random() calls of one problem generation: r[k] = 0
\* stands for a value that Math.floor(r * n) takes to 0, r[k] = 1 for one that
\* it takes to n - 1.  Draws 1 and 2 choose the operands, draws 3 to 5 the
\* three swaps of the shuffle.
Low == [k \in 1..5 |-> 0]
High == [k \in 1..5 |-> 1]

\* Math.floor(Math.random() * n) for the outcome u of Math.random().
RandomInt(u, n) == u * (n - 1)

---------------------------------------------------------------------------
(* utils/highScores.ts                                                     *)

getScoreKey(settings) ==
    IF settings.practiceMode = "specific" /\ "specificNumber" \in DOMAIN settings
    THEN settings.operation \o "-specific-" \o ToString(settings.specificNumber)
         \o "-" \o ToString(settings.practiceDuration) \o "s"
    ELSE settings.operation \o "-all-" \o ToString(settings.practiceDuration) \o "s"

\* scores[key]?.score || 0
StoredScore(store, key) == IF key \in DOMAIN store THEN store[key].score ELSE 0

\* A localStorage that fails is a store with one of these marks in its
\* domain: getItem or setItem throws (storage disabled or over its quota), or
\* the stored item is not JSON, so that JSON.parse throws.
FaultMarks == {"getItem throws", "JSON.parse throws", "setItem throws"}

ReadThrows(store) ==
    "getItem throws" \in DOMAIN store \/ "JSON.parse throws" \in DOMAIN store

WriteThrows(store) == "setItem throws" \in DOMAIN store

\* getHighScores(): the parsed item, or {} from the catch block.
getHighScores(store) ==
    IF ReadThrows(store) THEN <<>>
    ELSE IF DOMAIN store \cap FaultMarks = {} THEN store
    ELSE [k \in DOMAIN store \ FaultMarks |-> store[k]]

getHighScore(store, settings) ==
    StoredScore(getHighScores(store), getScoreKey(settings))

\* saveHighScore writing whatever score the game ended with.
saveHighScoreAlways(store, settings, score, t) ==
    LET key == getScoreKey(settings)
    IN  [scores |-> [k \in DOMAIN store \cup {key} |->
                        IF k = key THEN [score |-> score, date |-> t]
                        ELSE store[k]],
         result |-> TRUE, threw |-> FALSE]

\* saveHighScore that takes a tie for a new high score.
saveHighScoreOnTie(store, settings, score, t) ==
    LET key == getScoreKey(settings)
        currentHigh == StoredScore(store, key)
    IN  IF score >= currentHigh
        THEN [scores |-> [k \in DOMAIN store \cup {key} |->
                             IF k = key THEN [score |-> score, date |-> t]
                             ELSE store[k]],
              result |-> TRUE, threw |-> FALSE]
        ELSE [scores |-> store, result |-> FALSE, threw |-> FALSE]

\* saveHighScore without its try/catch: a throwing setItem is not caught.
saveHighScoreUncaught(store, settings, score, t) ==
    LET highScores == getHighScores(store)
        key == getScoreKey(settings)
        currentHigh == StoredScore(highScores, key)
    IN  IF score > currentHigh
        THEN IF WriteThrows(store)
             THEN [scores |-> store, result |-> FALSE, threw |-> TRUE]
             ELSE [scores |-> [k \in DOMAIN highScores \cup {key} |->
                                  IF k = key THEN [score |-> score, date |-> t]
                                  ELSE highScores[k]],
                   result |-> TRUE, threw |-> FALSE]
        ELSE [scores |-> store, result |-> FALSE, threw |-> FALSE]

\* saveHighScore(settings, score) at clock reading t: the store it leaves,
\* the value it returns, and whether an exception leaves it (the try block
\* holds the whole body, so none does).
saveHighScore(store, settings, score, t) ==
    LET highScores == getHighScores(store)
        key == getScoreKey(settings)
        currentHigh == StoredScore(highScores, key)
    IN  IF score > currentHigh
        THEN IF WriteThrows(store)
             THEN [scores |-> store, result |-> FALSE, threw |-> FALSE]
             ELSE [scores |-> [k \in DOMAIN highScores \cup {key} |->
                                  IF k = key THEN [score |-> score, date |-> t]
                                  ELSE highScores[k]],
                   result |-> TRUE, threw |-> FALSE]
        ELSE [scores |-> store, result |-> FALSE, threw |-> FALSE]

---------------------------------------------------------------------------
(* utils/mathUtils.ts                                                      *)

OperandMax(operation) ==
    IF operation \in {"multiplication", "division"} THEN MUL_DIV_MAX ELSE ADD_SUB_MAX

Operand(operation, u) == RandomInt(u, OperandMax(operation) + 1)

MakeProblem(operation, a, b) ==
    CASE operation = "addition" ->
           [operandA |-> a, operandB |-> b, operation |-> operation,
            correctAnswer |-> a + b]
      [] operation = "subtraction" ->
           LET hi == IF a >= b THEN a ELSE b
               lo == IF a >= b THEN b ELSE a
           IN  [operandA |-> hi, operandB |-> lo, operation |-> operation,
                correctAnswer |-> hi - lo]
      [] operation = "multiplication" ->
           [operandA |-> a, operandB |-> b, operation |-> operation,
            correctAnswer |-> a * b]
      [] operation = "division" ->
           \* a is the quotient, b the divisor
           [operandA |-> a * b, operandB |-> b, operation |-> operation,
            correctAnswer |-> a]

\* generateProblem(settings.operation, settings.specificNumber) under the
\* random outcomes r: a fixed operand takes the second place, and a divisor
\* drawn as 0 is replaced by 1.
generateProblem(settings, r) ==
    LET op == settings.operation
        a == Operand(op, r[1])
        drawn == IF "specificNumber" \in DOMAIN settings
                 THEN settings.specificNumber
                 ELSE Operand(op, r[2])
        b == IF op = "division" /\ drawn = 0 THEN 1 ELSE drawn
    IN  MakeProblem(op, a, b)

\* generateWrongAnswers(correctAnswer, count): count pairwise distinct
\* non-negative values different from correctAnswer, each at one of the
\* distances offsets from it, listed in increasing order.
generateWrongAnswers(correctAnswer, count, offsets) ==
    LET band == {correctAnswer + d : d \in offsets} \cap Nat
        Asc(s) == \A i \in 1..(count - 1) : s[i] < s[i + 1]
    IN  {s \in [1..count -> band] : Asc(s)}

---------------------------------------------------------------------------
(* hooks/useGameEngine.ts                                                  *)

createInitialState ==
    [status |-> "menu",
     settings |-> Null,
     currentProblem |-> Null,
     fallingAnswers |-> <<>>,
     bullets |-> <<>>,
     playerX |-> GAME_WIDTH \div 2,
     score |-> 0,
     lives |-> INITIAL_LIVES,
     level |-> 1,
     showingAnswer |-> FALSE,
     timeRemaining |-> 0]

\* A swap that loses a[i]: a[i] = a[j] alone.
SwapCopy(a, i, j) == [a EXCEPT ![i] = a[j]]

\* [a[i], a[j]] = [a[j], a[i]], with 1-based positions.
Swap(a, i, j) == [a EXCEPT ![i] = a[j], ![j] = a[i]]

\* The loop "for (i = length - 1; i > 0; i--)" over the four answers, under
\* the random outcomes r.
Shuffle(allAnswers, r) ==
    LET s3 == Swap(allAnswers, 4, RandomInt(r[3], 4) + 1)
        s2 == Swap(s3, 3, RandomInt(r[4], 3) + 1)
    IN  Swap(s2, 2, RandomInt(r[5], 2) + 1)

AnswerId(t, index) == "answer-" \o ToString(t) \o "-" \o ToString(index)

MakeAnswers(allAnswers, correctAnswer, t) ==
    LET spacing == GAME_WIDTH \div (Len(allAnswers) + 1)
    IN  [i \in 1..Len(allAnswers) |->
            [id |-> AnswerId(t, i - 1),
             value |-> allAnswers[i],
             x |-> spacing * i,
             y |-> ANSWER_Y,
             speed |-> 0,
             isCorrect |-> allAnswers[i] = correctAnswer]]

\* generateNewProblem(settings) at clock reading t, under the random outcomes
\* r and with wrongAnswers returned by generateWrongAnswers.
generateNewProblem(settings, t, r, wrongAnswers) ==
    LET problem == generateProblem(settings, r)
        allAnswers == <<problem.correctAnswer>> \o wrongAnswers
    IN  [problem |-> problem,
         answers |-> MakeAnswers(Shuffle(allAnswers, r), problem.correctAnswer, t)]

\* Every {problem, answers} that generateNewProblem(settings) can return at t
\* in the environment env.
NewProblems(settings, t, env) ==
    UNION { { generateNewProblem(settings, t, r, w) :
                w \in generateWrongAnswers(generateProblem(settings, r).correctAnswer,
                                           WRONG_ANSWER_COUNT, env.offsets) } :
            r \in env.streams }

\* START_GAME spreading the old state instead of createInitialState().
StartStateKeepingOld(settings, gen) ==
    [state EXCEPT
        !.status = "playing",
        !.settings = settings,
        !.currentProblem = gen.problem,
        !.fallingAnswers = gen.answers,
        !.lives = INITIAL_LIVES,
        !.score = 0,
        !.level = 1,
        !.timeRemaining = settings.practiceDuration]

StartState(settings, gen) ==
    [createInitialState EXCEPT
        !.status = "playing",
        !.settings = settings,
        !.currentProblem = gen.problem,
        !.fallingAnswers = gen.answers,
        !.lives = INITIAL_LIVES,
        !.score = 0,
        !.level = 1,
        !.timeRemaining = settings.practiceDuration]

Max(a, b) == IF a >= b THEN a ELSE b
Min(a, b) == IF a <= b THEN a ELSE b

\* A clamp that forgets the left edge.
ClampXRightOnly(x) == Min(GAME_WIDTH - PLAYER_SIZE \div 2, x)

ClampX(x) == Max(PLAYER_SIZE \div 2, Min(GAME_WIDTH - PLAYER_SIZE \div 2, x))

NewLevel(newScore) == (newScore \div POINTS_PER_LEVEL) + 1

BulletId(t) == "bullet-" \o ToString(t)

\* A bullet that leaves from the middle of the field.
NewBulletAtCentre(s, t) ==
    [id |-> BulletId(t), x |-> GAME_WIDTH \div 2,
     y |-> GAME_HEIGHT - PLAYER_SIZE - 10, speed |-> BULLET_SPEED]

NewBullet(s, t) ==
    [id |-> BulletId(t), x |-> s.playerX,
     y |-> GAME_HEIGHT - PLAYER_SIZE - 10, speed |-> BULLET_SPEED]

FindAnswer(s, answerId) ==
    LET hits == {i \in 1..Len(s.fallingAnswers) : s.fallingAnswers[i].id = answerId}
    IN  IF hits = {} THEN Null
        ELSE s.fallingAnswers[CHOOSE i \in hits : \A k \in hits : i <= k]

AnswerIds == {AnswerId(t, i) : t \in 0..MaxNow, i \in 0..WRONG_ANSWER_COUNT}

NoHist == [correct |-> 0, wrong |-> 0, timeouts |-> 0, hit |-> "none"]

\* The history after a dispatch that resolved no answer.
NoHit == [hist EXCEPT !.hit = "none"]

\* The hook after mounting in the menu: no timeout, no frame requested.
NoHook ==
    [timer |-> "off", frame |-> FALSE, started |-> FALSE,
     hits |-> <<>>, near |-> 0]

Init ==
    /\ state = createInitialState
    /\ scores = <<>>
    /\ now = 0
    /\ hist = NoHist
    /\ hook = NoHook

START_GAME(settings, env) ==
    /\ hist' = NoHist
    /\ UNCHANGED <<scores, now>>
    /\ \E gen \in NewProblems(settings, now, env) :
           state' = StartState(settings, gen)

MOVE_PLAYER(x) ==
    /\ state' = [state EXCEPT !.playerX = ClampX(x)]
    /\ hist' = NoHit
    /\ UNCHANGED <<scores, now>>

\* SHOOT without its status test.
ShotStateUnguarded(s, t) == [s EXCEPT !.bullets = Append(@, NewBullet(s, t))]

\* The state SHOOT returns at clock reading t.
ShotState(s, t) ==
    IF s.status # "playing" THEN s
    ELSE [s EXCEPT !.bullets = Append(@, NewBullet(s, t))]

SHOOT(env) ==
    /\ state.status = "playing" => Len(state.bullets) < env.maxBullets
    /\ state' = ShotState(state, now)
    /\ hist' = NoHit
    /\ UNCHANGED <<scores, now>>

\* UPDATE_BULLETS without its filter.
MovedBulletsNoFilter(bullets) ==
    [i \in 1..Len(bullets) |-> [bullets[i] EXCEPT !.y = @ - BULLET_SPEED]]

MovedBullets(bullets) ==
    LET moved == [i \in 1..Len(bullets) |->
                     [bullets[i] EXCEPT !.y = @ - BULLET_SPEED]]
        OnScreen(b) == b.y > 0
    IN  SelectSeq(moved, OnScreen)

\* The bullets an environment follows: those at most env.maxFlight moves
\* from the ship, and those that have come up to env.nearY.
Followed(bullets, env) ==
    \A i \in 1..Len(bullets) :
        \/ bullets[i].y > GAME_HEIGHT - PLAYER_SIZE - 10 - env.maxFlight * BULLET_SPEED
        \/ bullets[i].y <= env.nearY

UPDATE_BULLETS(env) ==
    /\ Followed(state.bullets, env)
    /\ state' = [state EXCEPT !.bullets = MovedBullets(@)]
    /\ hist' = NoHit
    /\ UNCHANGED <<scores, now>>

\* A correct hit that takes the level from the score before the hit.
CorrectHitStaleLevel(s, gen) ==
    [s EXCEPT !.score = s.score + POINTS_PER_HIT,
              !.level = NewLevel(s.score),
              !.currentProblem = gen.problem,
              !.fallingAnswers = gen.answers,
              !.bullets = <<>>]

\* The state a correct hit returns, given the generated problem.
CorrectHit(s, gen) ==
    LET newScore == s.score + POINTS_PER_HIT
    IN  [s EXCEPT !.score = newScore,
                  !.level = NewLevel(newScore),
                  !.currentProblem = gen.problem,
                  !.fallingAnswers = gen.answers,
                  !.bullets = <<>>]

\* A wrong hit that ends the game only once lives would go below zero.
WrongHitOneLate(s) ==
    LET newLives == s.lives - 1
    IN  IF newLives < 0
        THEN [s EXCEPT !.lives = 0, !.status = "gameOver", !.showingAnswer = TRUE]
        ELSE [s EXCEPT !.lives = newLives, !.showingAnswer = TRUE, !.bullets = <<>>]

\* The state a wrong hit returns.
WrongHit(s) ==
    LET newLives == s.lives - 1
    IN  IF newLives <= 0
        THEN [s EXCEPT !.lives = 0, !.status = "gameOver", !.showingAnswer = TRUE]
        ELSE [s EXCEPT !.lives = newLives, !.showingAnswer = TRUE, !.bullets = <<>>]

\* The store after a wrong hit: saveHighScore runs when the last life goes.
WrongHitStore(s, store, t) ==
    IF s.lives - 1 <= 0 /\ s.settings # Null
    THEN saveHighScore(store, s.settings, s.score, t).scores
    ELSE store

\* Whether the saveHighScore call of a game-over transition throws; the
\* exception would leave the reducer, and the state would stay as it is.
SaveThrows(s, store, t) ==
    s.settings # Null /\ saveHighScore(store, s.settings, s.score, t).threw

Bump(n, cap) == IF n < cap THEN n + 1 ELSE cap

HIT_ANSWER(answerId, env) ==
    LET answer == FindAnswer(state, answerId)
    IN  /\ now' = now
        /\ IF answer = Null
           THEN /\ hist' = NoHit
                /\ UNCHANGED <<state, scores>>
           ELSE IF answer.isCorrect
           THEN IF state.settings = Null
                THEN /\ hist' = NoHit
                     /\ UNCHANGED <<state, scores>>
                ELSE /\ hist.correct < env.maxCorrect
                     /\ \E gen \in NewProblems(state.settings, now, env) :
                            state' = CorrectHit(state, gen)
                     /\ hist' = [hist EXCEPT !.correct = @ + 1, !.hit = answerId]
                     /\ scores' = scores
           ELSE /\ state' = IF state.lives - 1 <= 0 /\ SaveThrows(state, scores, now)
                            THEN state
                            ELSE WrongHit(state)
                /\ scores' = WrongHitStore(state, scores, now)
                /\ hist' = [hist EXCEPT !.wrong = Bump(@, INITIAL_LIVES),
                                        !.hit = answerId]

NEXT_PROBLEM(env) ==
    /\ hist' = NoHit
    /\ UNCHANGED <<scores, now>>
    /\ IF state.settings = Null
       THEN state' = state
       ELSE \E gen \in NewProblems(state.settings, now, env) :
                state' = [state EXCEPT !.currentProblem = gen.problem,
                                       !.fallingAnswers = gen.answers,
                                       !.showingAnswer = FALSE,
                                       !.bullets = <<>>]

UPDATE_GAME ==
    /\ hist' = NoHit
    /\ UNCHANGED <<state, scores, now>>

\* A time-out test that misses the frame which uses up the time exactly.
TimeRanOutStrict(s, deltaTime) ==
    s.timeRemaining - deltaTime < 0 /\ s.timeRemaining > 0

\* Whether UPDATE_TIMER(deltaTime) finds that the time has run out.
TimeRanOut(s, deltaTime) ==
    Max(0, s.timeRemaining - deltaTime) = 0 /\ s.timeRemaining > 0

\* UPDATE_TIMER that leaves the clock of the game alone.
TimerStateNoCountdown(s, deltaTime) == s

\* The state UPDATE_TIMER(deltaTime) returns.
TimerState(s, deltaTime) ==
    IF s.status # "playing" THEN s
    ELSE IF TimeRanOut(s, deltaTime)
    THEN [s EXCEPT !.timeRemaining = 0, !.status = "gameOver"]
    ELSE [s EXCEPT !.timeRemaining = Max(0, s.timeRemaining - deltaTime)]

\* The store after UPDATE_TIMER(deltaTime).
TimerStore(s, store, deltaTime, t) ==
    IF s.status = "playing" /\ TimeRanOut(s, deltaTime) /\ s.settings # Null
    THEN saveHighScore(store, s.settings, s.score, t).scores
    ELSE store

\* The reducer applied to UPDATE_TIMER(deltaTime) in the state s.
ReducedTimer(s, store, deltaTime, t) ==
    IF s.status = "playing" /\ TimeRanOut(s, deltaTime) /\ SaveThrows(s, store, t)
    THEN s
    ELSE TimerState(s, deltaTime)

UPDATE_TIMER(deltaTime) ==
    /\ state' = ReducedTimer(state, scores, deltaTime, now)
    /\ scores' = TimerStore(state, scores, deltaTime, now)
    /\ hist' = IF state.status = "playing" /\ TimeRanOut(state, deltaTime)
               THEN [NoHit EXCEPT !.timeouts = Bump(@, 2)]
               ELSE NoHit
    /\ now' = now

\* RETURN_TO_MENU that only changes the status.
ReturnKeepingGame ==
    /\ state' = [state EXCEPT !.status = "menu"]
    /\ hist' = NoHist
    /\ UNCHANGED <<scores, now>>

RETURN_TO_MENU ==
    /\ state' = createInitialState
    /\ hist' = NoHist
    /\ UNCHANGED <<scores, now>>

\* Date.now() moves on between two dispatches.
Tick ==
    /\ now < MaxNow
    /\ now' = now + 1
    /\ UNCHANGED <<state, scores, hist, hook>>

\* The dispatches of an environment env: the configurations it starts games
\* with, the x it moves to, the elapsed times of its frames, the answers its
\* bullets reach, the outcomes of Math.random(), the distances of the
\* distractors from the correct answer, and how far it is followed.  The
\* actions are dispatched to the reducer directly; the hook is not involved.
Dispatch(env) ==
    \/ \E settings \in env.settings : START_GAME(settings, env) /\ hook' = hook
    \/ \E x \in env.xs : MOVE_PLAYER(x) /\ hook' = hook
    \/ SHOOT(env) /\ hook' = hook
    \/ UPDATE_BULLETS(env) /\ hook' = hook
    \/ \E answerId \in env.answerIds : HIT_ANSWER(answerId, env) /\ hook' = hook
    \/ NEXT_PROBLEM(env) /\ hook' = hook
    \/ UPDATE_GAME /\ hook' = hook
    \/ \E deltaTime \in env.deltaTimes : UPDATE_TIMER(deltaTime) /\ hook' = hook
    \/ RETURN_TO_MENU /\ hook' = hook
    \/ Tick

\* A player who scores, errs and runs out of time, and stays where the game
\* puts the ship without shooting while the game is on.
GameEnv ==
    [settings |-> {AllSettings("addition", 30)},
     xs |-> {GAME_WIDTH \div 2},
     deltaTimes |-> {0, 30, 100},
     answerIds |-> AnswerIds,
     streams |-> {Low, High},
     offsets |-> {1, 2, 3},
     maxCorrect |-> MaxCorrect,
     maxBullets |-> MaxBullets,
     maxFlight |-> 0,
     nearY |-> 0]

Next == Dispatch(GameEnv)

Spec == Init /\ [][Next]_vars

\* A player who moves and shoots, in games that end by the clock or by
\* wrong answers.
MotionEnv ==
    [settings |-> {AllSettings("addition", 30)},
     xs |-> {-10, 29, 30, GAME_WIDTH \div 2, 770, 771, 1000},
     deltaTimes |-> {100},
     answerIds |-> AnswerIds,
     streams |-> {High},
     offsets |-> {-1, 1, 2, 3},
     maxCorrect |-> 0,
     maxBullets |-> MaxBullets,
     maxFlight |-> MaxFlight,
     nearY |-> 0]

NextMotion == Dispatch(MotionEnv)

SpecMotion == Init /\ [][NextMotion]_vars

---------------------------------------------------------------------------
(* The hook useGameEngine: its effects, the reveal timeout and the frame   *)
(* loop.  A callback (a call of startGame, movePlayer, shoot, returnToMenu,*)
(* the timeout, a frame) runs to its end; React then applies the actions   *)
(* it dispatched, in order, commits the state and runs the effects whose   *)
(* dependencies changed, before the next callback starts.  stateRef.current*)
(* is therefore the committed state when a callback starts, and stays that *)
(* state while the callback runs.                                          *)

\* The reveal effect that does not clear its timeout.
RevealEffectNoCleanup(old, new, timer) ==
    IF old.showingAnswer = new.showingAnswer /\ old.status = new.status
    THEN timer
    ELSE IF new.showingAnswer /\ new.status # "gameOver" THEN "armed" ELSE timer

\* The reveal effect that never sets its timeout.
RevealEffectNeverSet(old, new, timer) == "off"

\* The effect on [state.showingAnswer, state.status]: when one of them
\* changed, the cleanup clears the timeout, and a new one is set if an
\* answer is being shown and the game is not over.
RevealEffect(old, new, timer) ==
    IF old.showingAnswer = new.showingAnswer /\ old.status = new.status
    THEN timer
    ELSE IF new.showingAnswer /\ new.status # "gameOver" THEN "armed" ELSE "off"

\* The loop effect that does not cancel the requested frame.
LoopEffectNoCancel(old, new, frame) ==
    IF old.status = new.status THEN frame
    ELSE frame \/ new.status = "playing"

\* The effect on [state.status]: when the status changed, the cleanup
\* cancels the requested frame, and a frame is requested if the new status is
\* playing.
LoopEffect(old, new, frame) ==
    IF old.status = new.status THEN frame
    ELSE new.status = "playing"

\* The hook after the commit that replaces the state old by new, hk being
\* the hook as the callback left it.
Effects(old, new, hk) ==
    [hk EXCEPT !.timer = RevealEffect(old, new, hk.timer),
               !.frame = LoopEffect(old, new, hk.frame),
               !.started = IF old.status # new.status /\ new.status = "playing"
                           THEN FALSE ELSE hk.started]

\* distance < ANSWER_SIZE / 2, compared by the squares.
Near(bullet, answer) ==
    (bullet.x - answer.x) * (bullet.x - answer.x)
      + (bullet.y - answer.y) * (bullet.y - answer.y)
    < (ANSWER_SIZE \div 2) * (ANSWER_SIZE \div 2)

\* The inner loop of the collision check: the place of the first answer that
\* is not in hitAnswers and within reach of the bullet, 0 if there is none.
FirstAnswer(bullet, answers, hitAnswers) ==
    LET reached == {j \in 1..Len(answers) :
                       answers[j].id \notin hitAnswers /\ Near(bullet, answers[j])}
    IN  IF reached = {} THEN 0
        ELSE CHOOSE j \in reached : \A k \in reached : j <= k

\* A collision check without the hitAnswers set.
CollisionsNoTieBreak(bullets, answers) ==
    LET first == [i \in 1..Len(bullets) |-> FirstAnswer(bullets[i], answers, {})]
        ids == [i \in 1..Len(bullets) |->
                   IF first[i] = 0 THEN "none" ELSE answers[first[i]].id]
        Hit(id) == id # "none"
    IN  SelectSeq(ids, Hit)

RECURSIVE CollisionsFrom(_, _, _, _)
CollisionsFrom(bullets, answers, i, hits) ==
    IF i > Len(bullets) THEN hits
    ELSE LET j == FirstAnswer(bullets[i], answers,
                              {hits[k] : k \in 1..Len(hits)})
         IN  CollisionsFrom(bullets, answers, i + 1,
                            IF j = 0 THEN hits ELSE Append(hits, answers[j].id))

\* The answerIds of the HIT_ANSWER actions the collision check dispatches, in
\* order, when stateRef.current holds bullets and answers.
Collisions(bullets, answers) == CollisionsFrom(bullets, answers, 1, <<>>)

\* The bullets within reach of some answer.
NearCount(bullets, answers) ==
    Cardinality({i \in 1..Len(bullets) :
                    \E j \in 1..Len(answers) : Near(bullets[i], answers[j])})

\* The reducer applied to HIT_ANSWER(answerId) in the game g = [state, scores,
\* wrong, hit]: the games that can result, wrong counting the wrong hits and
\* hit naming the answer resolved last.
ReducedHit(g, answerId, t, env) ==
    LET s == g.state
        answer == FindAnswer(s, answerId)
    IN  IF answer = Null THEN {g}
        ELSE IF answer.isCorrect
        THEN IF s.settings = Null THEN {g}
             ELSE { [g EXCEPT !.state = CorrectHit(s, gen), !.hit = answerId] :
                      gen \in NewProblems(s.settings, t, env) }
        ELSE { [state |-> IF s.lives - 1 <= 0 /\ SaveThrows(s, g.scores, t)
                          THEN s ELSE WrongHit(s),
                scores |-> WrongHitStore(s, g.scores, t),
                wrong |-> g.wrong + 1,
                hit |-> answerId] }

\* The reducer applied to the HIT_ANSWER actions of a frame, in order.
RECURSIVE ReducedHits(_, _, _, _)
ReducedHits(games, answerIds, t, env) ==
    IF answerIds = <<>> THEN games
    ELSE ReducedHits(UNION {ReducedHit(g, Head(answerIds), t, env) : g \in games},
                     Tail(answerIds), t, env)
\* The hook when a callback other than a frame starts: the record of the
\* last collision check is dropped.
Quiet(hk) == [hk EXCEPT !.hits = <<>>, !.near = 0]

\* A timeout that is still set when a game starts was set for another game.
OtherGame(hk) == [hk EXCEPT !.timer = IF @ = "off" THEN "off" ELSE "stale"]

startGame(settings, env) ==
    /\ START_GAME(settings, env)
    /\ hook' = OtherGame(Effects(state, state', Quiet(hook)))

movePlayer(x) ==
    /\ MOVE_PLAYER(x)
    /\ hook' = Effects(state, state', Quiet(hook))

shoot(env) ==
    /\ SHOOT(env)
    /\ hook' = Effects(state, state', Quiet(hook))

returnToMenu ==
    /\ RETURN_TO_MENU
    /\ hook' = Effects(state, state', Quiet(hook))

\* The callback of the reveal timeout: dispatch NEXT_PROBLEM.
RevealTimeout(env) ==
    /\ hook.timer # "off"
    /\ NEXT_PROBLEM(env)
    /\ hook' = Effects(state, state', [Quiet(hook) EXCEPT !.timer = "off"])

\* One run of gameLoop.  deltaTime is 0 in the first frame after the loop
\* effect has reset lastTimeRef.  UPDATE_TIMER, UPDATE_GAME (which returns its
\* state) and UPDATE_BULLETS are dispatched, then a HIT_ANSWER for every
\* collision found in stateRef.current, and the next frame is requested if
\* stateRef.current.status is playing; the reducer then takes the actions in
\* that order.
gameLoop(env) ==
    /\ hook.frame
    /\ Followed(state.bullets, env)
    /\ now' = now
    /\ \E deltaTime \in (IF hook.started THEN env.deltaTimes ELSE {0}) :
         LET ref == state
             hits == Collisions(ref.bullets, ref.fallingAnswers)
             timed == ReducedTimer(state, scores, deltaTime, now)
             moved == [timed EXCEPT !.bullets = MovedBullets(@)]
             ranOut == state.status = "playing" /\ TimeRanOut(state, deltaTime)
             ran == [hook EXCEPT !.frame = (ref.status = "playing"),
                                 !.started = TRUE,
                                 !.hits = hits,
                                 !.near = NearCount(ref.bullets, ref.fallingAnswers)]
         IN  \E g \in ReducedHits({[state |-> moved,
                                     scores |-> TimerStore(state, scores, deltaTime, now),
                                     wrong |-> 0,
                                     hit |-> "none"]},
                                   hits, now, env) :
                /\ g.state.score <= POINTS_PER_HIT * env.maxCorrect
                /\ state' = g.state
                /\ scores' = g.scores
                /\ hook' = Effects(state, g.state, ran)
                /\ hist' = [correct |-> hist.correct
                                          + (g.state.score - state.score) \div POINTS_PER_HIT,
                            wrong |-> Min(INITIAL_LIVES, hist.wrong + g.wrong),
                            timeouts |-> IF ranOut THEN Bump(hist.timeouts, 2)
                                         ELSE hist.timeouts,
                            hit |-> g.hit]

\* A bullet in flight that was shot at clock reading t (negative: before
\* the clock readings that are followed).
Bullet(t, x, y) == [id |-> BulletId(t), x |-> x, y |-> y, speed |-> BULLET_SPEED]

\* The games of env under way with bullets in flight.
InFlight(env) ==
    UNION { { [StartState(settings, gen) EXCEPT
                  !.bullets = bullets,
                  !.playerX = IF bullets = <<>> THEN @
                              ELSE bullets[Len(bullets)].x] :
                gen \in NewProblems(settings, 0, env) } :
            settings \in env.settings, bullets \in env.flights }

\* A player who shoots from under the first two answers, and whose bullets
\* are followed when they leave the ship and when they come up to the
\* answers; games end by the clock or by wrong answers.
HookEnv ==
    [settings |-> {AllSettings("addition", 30)},
     xs |-> {160, 320},
     deltaTimes |-> {0, 30},
     answerIds |-> AnswerIds,
     streams |-> {High},
     offsets |-> {1, 2, 3},
     maxCorrect |-> 1,
     maxBullets |-> 2,
     maxFlight |-> MaxFlight,
     nearY |-> 130,
     flights |-> { <<>>,
                   <<Bullet(-1, 160, 130)>>,
                   <<Bullet(-1, 320, 130)>>,
                   <<Bullet(-2, 160, 130), Bullet(-1, 160, 130)>>,
                   <<Bullet(-2, 320, 130), Bullet(-1, 320, 130)>>,
                   <<Bullet(-2, 305, 122), Bullet(-1, 320, 130)>>,
                   <<Bullet(-2, 160, 130), Bullet(-1, 320, 130)>> }]

\* The hook mounted in the menu, or a game under way with the frame loop
\* running and bullets on their way to the answers.
InitHook ==
    /\ scores = <<>>
    /\ now = 0
    /\ hist = NoHist
    /\ \/ state = createInitialState /\ hook = NoHook
       \/ /\ state \in InFlight(HookEnv)
          /\ hook = [NoHook EXCEPT !.frame = TRUE, !.started = TRUE]

NextHook ==
    \/ \E settings \in HookEnv.settings : startGame(settings, HookEnv)
    \/ \E x \in HookEnv.xs : movePlayer(x)
    \/ shoot(HookEnv)
    \/ returnToMenu
    \/ RevealTimeout(HookEnv)
    \/ gameLoop(HookEnv)
    \/ Tick

SpecHook == InitHook /\ [][NextHook]_vars

---------------------------------------------------------------------------
(* The reducer with bullets that are about to leave the field.             *)

\* A player who shoots, with bullets followed when they leave the ship and
\* when they come to the top of the field.
FlightEnv ==
    [settings |-> {AllSettings("addition", 30)},
     xs |-> {160, GAME_WIDTH \div 2},
     deltaTimes |-> {30},
     answerIds |-> AnswerIds,
     streams |-> {High},
     offsets |-> {1, 2, 3},
     maxCorrect |-> 0,
     maxBullets |-> 2,
     maxFlight |-> MaxFlight,
     nearY |-> 18,
     flights |-> { <<>>,
                   <<Bullet(-1, 160, 2)>>,
                   <<Bullet(-2, 400, 10)>>,
                   <<Bullet(-2, 160, 2), Bullet(-1, 400, 10)>>,
                   <<Bullet(-2, 400, 18), Bullet(-1, 160, 2)>>,
                   <<Bullet(-2, 160, 10), Bullet(-1, 400, 10)>> }]

InitFlight ==
    /\ state \in {createInitialState} \cup InFlight(FlightEnv)
    /\ scores = <<>>
    /\ now = 0
    /\ hist = NoHist
    /\ hook = NoHook

NextFlight == Dispatch(FlightEnv)

SpecFlight == InitFlight /\ [][NextFlight]_vars

---------------------------------------------------------------------------
(* Whole games through the hook, as the screens let them be played: a game *)
(* is started from the menu, every bullet is followed from the ship to the *)
(* answers or out of the field, and frames come with or without elapsed    *)
(* time.                                                                   *)

\* A player who moves under the first two answers and shoots one bullet at
\* a time; a frame takes no time or a third of the game.
LiveEnv ==
    [settings |-> {AllSettings("addition", 30)},
     xs |-> {160, 320},
     deltaTimes |-> {0, 10},
     answerIds |-> AnswerIds,
     streams |-> {High},
     offsets |-> {1, 2, 3},
     maxCorrect |-> 1,
     maxBullets |-> 1,
     maxFlight |-> (GAME_HEIGHT - PLAYER_SIZE - 10) \div BULLET_SPEED + 1,
     nearY |-> 0,
     flights |-> { <<>> }]

\* The frames of LiveEnv in which time has passed.
TimedEnv == [LiveEnv EXCEPT !.deltaTimes = {10}]

\* MainMenu, the only caller of startGame, is on the screen in the menu.
startFromMenu(settings, env) ==
    /\ state.status = "menu"
    /\ startGame(settings, env)

\* Whether a bullet shot from the ship's place goes to the correct answer.
AimsAtCorrect(s) ==
    \E i \in 1..Len(s.fallingAnswers) :
        /\ s.fallingAnswers[i].isCorrect
        /\ (s.fallingAnswers[i].x - s.playerX) * (s.fallingAnswers[i].x - s.playerX)
             < (ANSWER_SIZE \div 2) * (ANSWER_SIZE \div 2)

\* shoot by a player who, after env.maxCorrect correct answers in a game,
\* shoots at wrong answers only.
shootInGame(env) ==
    /\ state.score >= POINTS_PER_HIT * env.maxCorrect => ~AimsAtCorrect(state)
    /\ shoot(env)

InitFrames ==
    /\ state = createInitialState
    /\ scores = <<>>
    /\ now = 0
    /\ hist = NoHist
    /\ hook = NoHook

NextFrames ==
    \/ \E settings \in LiveEnv.settings : startFromMenu(settings, LiveEnv)
    \/ \E x \in LiveEnv.xs : movePlayer(x)
    \/ shootInGame(LiveEnv)
    \/ returnToMenu
    \/ RevealTimeout(LiveEnv)
    \/ gameLoop(LiveEnv)

\* requestAnimationFrame keeps calling gameLoop, and time passes.
SpecFrames ==
    InitFrames /\ [][NextFrames]_vars /\ WF_vars(gameLoop(TimedEnv))

\* A timeout that is set fires.
SpecReveal ==
    InitFrames /\ [][NextFrames]_vars /\ WF_vars(RevealTimeout(LiveEnv))

---------------------------------------------------------------------------
(* The high-score store on its own: saveHighScore called with any of a few   *)
(* configurations and scores.  hist holds the call made last and its result. *)

\* getNumberRange(op): the numbers the menu offers for practiceMode "specific".
getNumberRange(op) == 0..OperandMax(op)

\* Every configuration handleStartGame can build.
ValidSettings ==
    UNION { {AllSettings(op, d) : d \in Durations}
            \cup {SpecificSettings(op, n, d) : n \in getNumberRange(op), d \in Durations} :
            op \in Operations }

\* The storage key of every configuration.
ScoreKeys == [settings \in ValidSettings |-> getScoreKey(settings)]

StoreSettings ==
    { AllSettings("addition", 30), SpecificSettings("addition", 1, 30),
      SpecificSettings("division", 12, 60) }

StoreScores == {0, 10, 20}

SAVE_HIGH_SCORE(settings, score) ==
    LET saved == saveHighScore(scores, settings, score, now)
    IN  /\ scores' = saved.scores
        /\ hist' = [call |-> "saveHighScore", settings |-> settings,
                    score |-> score, result |-> saved.result]
        /\ UNCHANGED <<state, now, hook>>

NextStore ==
    \/ \E settings \in StoreSettings, score \in StoreScores :
          SAVE_HIGH_SCORE(settings, score)
    \/ Tick

SpecStore == Init /\ [][NextStore]_vars

---------------------------------------------------------------------------
(* The game over a localStorage that may fail.                             *)

\* Storage that throws on every access (disabled storage).
Unavailable == [k \in {"getItem throws", "setItem throws"} |-> TRUE]

\* An item that is not JSON.
Corrupt == [k \in {"JSON.parse throws"} |-> TRUE]

\* A readable store that takes no more writes, empty or holding a best.
Full == [k \in {"setItem throws"} |-> TRUE]

FullWithBest ==
    [k \in {getScoreKey(AllSettings("addition", 30)), "setItem throws"} |->
        IF k = "setItem throws" THEN TRUE
        ELSE [score |-> POINTS_PER_HIT, date |-> 0]]

FaultyStores == {<<>>, Unavailable, Corrupt, Full, FullWithBest}

InitFaulty ==
    /\ state = createInitialState
    /\ scores \in FaultyStores
    /\ now = 0
    /\ hist = NoHist
    /\ hook = NoHook

\* A player who scores up to twice and then loses by the clock or by wrong
\* answers.
FaultyEnv ==
    [settings |-> {AllSettings("addition", 30)},
     xs |-> {GAME_WIDTH \div 2},
     deltaTimes |-> {30},
     answerIds |-> AnswerIds,
     streams |-> {High},
     offsets |-> {1, 2, 3},
     maxCorrect |-> 2,
     maxBullets |-> 0,
     maxFlight |-> 0,
     nearY |-> 0]

NextFaulty == Dispatch(FaultyEnv)

SpecFaulty == InitFaulty /\ [][NextFaulty]_vars

---------------------------------------------------------------------------
(* Properties of the game reducer                                          *)

Playing == state.status = "playing"
GameOver == state.status = "gameOver"

\* C1: START_GAME(settings), from any state, yields status playing, score 0,
\* lives 3, level 1, timeRemaining = settings.practiceDuration, showingAnswer
\* false, no bullets, the given settings, and a problem generated at this
\* dispatch together with its four answers.
C1_StartGameResets ==
    [][\A settings \in GameEnv.settings :
          START_GAME(settings, GameEnv) =>
             /\ state'.status = "playing"
             /\ state'.score = 0
             /\ state'.lives = 3
             /\ state'.level = 1
             /\ state'.timeRemaining = settings.practiceDuration
             /\ state'.showingAnswer = FALSE
             /\ state'.bullets = <<>>
             /\ state'.settings = settings
             /\ \E gen \in NewProblems(settings, now, GameEnv) :
                    /\ state'.currentProblem = gen.problem
                    /\ state'.fallingAnswers = gen.answers]_vars

\* A game started after an earlier game has left its score in the store, and
\* not yet played.
C1_Witness ==
    /\ Playing /\ hist = NoHist /\ DOMAIN scores # {}
    /\ state.score = 0 /\ state.lives = 3 /\ state.timeRemaining = 30

\* C2: after N correct hits since START_GAME the score is 10 * N and the level
\* floor(10 * N / 50) + 1; always level = floor(score / 50) + 1 and the score
\* is a non-negative multiple of 10.
C2_ScoreAndLevel ==
    /\ state.score = 10 * hist.correct
    /\ state.level = ((10 * hist.correct) \div 50) + 1
    /\ state.level = (state.score \div 50) + 1
    /\ state.score >= 0
    /\ state.score % 10 = 0

\* Five correct hits have brought the score to 50 and the level to 2.
C2_Witness == hist.correct = 5 /\ state.score = 50 /\ state.level = 2

\* C3: counting the wrong hits since START_GAME, lives is 3 less their number
\* and the game goes on (unless the clock has ended it) for fewer than three;
\* with the third, lives is 0 and the status gameOver; lives is always in 0..3.
C3_LivesAndGameOver ==
    /\ state.lives \in 0..3
    /\ hist.wrong < 3 => state.lives = 3 - hist.wrong
    /\ hist.wrong < 3 /\ hist.timeouts = 0 => ~GameOver
    /\ hist.wrong = 3 => state.lives = 0 /\ GameOver

\* The third wrong hit has ended a game that the clock had not ended.
C3_Witness == hist.wrong = 3 /\ hist.timeouts = 0 /\ state.lives = 0 /\ GameOver

\* C4: while playing, UPDATE_TIMER with deltaTime >= timeRemaining sets
\* timeRemaining to 0 and the status to gameOver; an UPDATE_TIMER that does
\* not end the game writes no score; the clock ends a game at most once, and
\* UPDATE_TIMER in a game that is over changes neither the state nor the store.
C4_TimerEndsGameOnce ==
    /\ [](hist.timeouts <= 1)
    /\ [][\A deltaTime \in GameEnv.deltaTimes :
             UPDATE_TIMER(deltaTime) =>
                /\ Playing /\ deltaTime >= state.timeRemaining =>
                      /\ state'.timeRemaining = 0
                      /\ state'.status = "gameOver"
                      /\ hist'.timeouts = hist.timeouts + 1
                /\ ~(Playing /\ deltaTime >= state.timeRemaining) =>
                      /\ scores' = scores
                      /\ state'.status = state.status
                /\ GameOver => state' = state /\ scores' = scores]_vars

\* The clock has ended the game.
C4_Witness == hist.timeouts = 1 /\ GameOver /\ state.timeRemaining = 0

\* C5: once HIT_ANSWER has resolved an answerId, HIT_ANSWER with the same
\* answerId returns the state unchanged (and writes no score).
C5_HitIdempotent ==
    [][\A answerId \in GameEnv.answerIds :
          hist.hit = answerId /\ HIT_ANSWER(answerId, GameEnv) =>
             state' = state /\ scores' = scores]_vars

\* C6: MOVE_PLAYER(x) sets playerX to x clamped into [30, 770]; playerX is
\* always in [30, 770].
C6_MoveClamps ==
    /\ [](state.playerX >= 30 /\ state.playerX <= 770)
    /\ [][\A x \in MotionEnv.xs :
             MOVE_PLAYER(x) =>
                state'.playerX = IF x < 30 THEN 30 ELSE IF x > 770 THEN 770 ELSE x]_vars

\* The ship at the right edge, where only an x of 770 or more puts it.
C6_Witness == state.playerX = 770

\* C7 as stated: MOVE_PLAYER and SHOOT dispatched while the status is not
\* playing return the state unchanged.
C7_StaleActionsIgnored ==
    [][~Playing /\ (SHOOT(MotionEnv) \/ \E x \in MotionEnv.xs : MOVE_PLAYER(x))
          => state' = state]_vars

\* C7 as amended: while the status is not playing, SHOOT returns the state
\* unchanged, and MOVE_PLAYER(x) changes playerX to the clamped x and nothing
\* else.
C7_StaleShootIgnoredMoveApplied ==
    [][~Playing =>
          /\ SHOOT(MotionEnv) => state' = state
          /\ \A x \in MotionEnv.xs :
                MOVE_PLAYER(x) =>
                   state' = [state EXCEPT !.playerX =
                                IF x < 30 THEN 30 ELSE IF x > 770 THEN 770 ELSE x]]_vars

\* The ship moved away from the middle while the menu is showing.
C7_Witness == state.status = "menu" /\ state.playerX # 400 /\ state.bullets = <<>>

\* C8: a step that takes the status to gameOver writes the score under the
\* key of the game's settings if it is greater than the score stored there
\* (0 if none), leaving the other keys alone, and leaves the store as it is
\* otherwise; a wrong hit at lives = 1 gives lives = 0 and status gameOver.
C8_GameOverSavesHigherScore ==
    /\ [][~GameOver /\ state'.status = "gameOver" =>
             LET key == getScoreKey(state.settings)
                 best == IF key \in DOMAIN scores THEN scores[key].score ELSE 0
             IN  IF state.score > best
                 THEN /\ DOMAIN scores' = DOMAIN scores \cup {key}
                      /\ scores'[key].score = state.score
                      /\ \A k \in DOMAIN scores \ {key} : scores'[k] = scores[k]
                 ELSE scores' = scores]_vars
    /\ [][\A answerId \in GameEnv.answerIds :
             /\ state.lives = 1
             /\ FindAnswer(state, answerId) # Null
             /\ ~FindAnswer(state, answerId).isCorrect
             /\ HIT_ANSWER(answerId, GameEnv)
             => state'.lives = 0 /\ state'.status = "gameOver"]_vars

\* A game ended by the third wrong hit, its score now the stored best.
C8_Witness ==
    /\ GameOver /\ hist.wrong = 3 /\ hist.timeouts = 0 /\ state.score > 0
    /\ getScoreKey(state.settings) \in DOMAIN scores
    /\ scores[getScoreKey(state.settings)].score = state.score

\* C10: RETURN_TO_MENU, from any state, yields the initial menu state.
C10_ReturnToMenuResets ==
    [][RETURN_TO_MENU =>
          state' = [status |-> "menu", settings |-> Null, currentProblem |-> Null,
                    fallingAnswers |-> <<>>, bullets |-> <<>>, playerX |-> 400,
                    score |-> 0, lives |-> 3, level |-> 1,
                    showingAnswer |-> FALSE, timeRemaining |-> 0]]_vars

\* Back at the menu after a game that left its score in the store.
C10_Witness == state.status = "menu" /\ DOMAIN scores # {} /\ state.settings = Null

\* C11: while the status is playing there are exactly 4 answers, their values
\* are pairwise distinct, and exactly one of them has isCorrect = TRUE, the
\* one whose value is currentProblem.correctAnswer.
C11_FourAnswersOneCorrect ==
    Playing =>
        LET answers == state.fallingAnswers
        IN  /\ Len(answers) = WRONG_ANSWER_COUNT + 1
            /\ \A i, j \in 1..Len(answers) :
                  i # j => answers[i].value # answers[j].value
            /\ Cardinality({i \in 1..Len(answers) : answers[i].isCorrect}) = 1
            /\ \A i \in 1..Len(answers) :
                  answers[i].isCorrect <=>
                      answers[i].value = state.currentProblem.correctAnswer

\* A problem generated after a correct hit whose shuffle moved the correct
\* answer from the first place to the last.
C11_Witness ==
    /\ Playing
    /\ hist.correct >= 1
    /\ Len(state.fallingAnswers) = 4
    /\ state.fallingAnswers[4].isCorrect
    /\ ~state.fallingAnswers[1].isCorrect

\* The distance UPDATE_BULLETS moves a bullet shot in the state s.
BulletStep(s) ==
    LET bullet == NewBullet(s, 0)
    IN  bullet.y - MovedBullets(<<bullet>>)[1].y

\* C13: when the level goes up, the answers of the new level are faster than
\* those of the old one and UPDATE_BULLETS moves a bullet further.
C13_SpeedGrowsWithLevel ==
    [][Playing /\ state'.status = "playing" /\ state'.level > state.level
       => /\ \A i \in 1..Len(state.fallingAnswers), j \in 1..Len(state'.fallingAnswers) :
                state'.fallingAnswers[j].speed > state.fallingAnswers[i].speed
          /\ BulletStep(state') > BulletStep(state)]_vars

\* The claim C12 as stated: whenever reading or writing the store fails,
\* getHighScore is 0, the saveHighScore of a game-over transition returns
\* false and leaves the store as it is, and the transition gives the game
\* state it gives with a working store.
C12_StoreFailureSavesNothing ==
    /\ [](\A settings \in FaultyEnv.settings :
             ReadThrows(scores) => getHighScore(scores, settings) = 0)
    /\ [][/\ (ReadThrows(scores) \/ WriteThrows(scores))
           /\ Playing
           /\ state'.status = "gameOver"
           => /\ ~saveHighScore(scores, state.settings, state.score, now).result
              /\ scores' = scores
              /\ state'.score = state.score
              /\ state'.lives \in {0, state.lives}]_vars

\* The store a game-over transition leaves and what its saveHighScore call
\* returns when the store fails: nothing is thrown; a failing write returns
\* false and leaves the store; a failing read counts as a best of 0, so that
\* a positive score is written and true returned when the write works.
SaveRecovered ==
    LET saved == saveHighScore(scores, state.settings, state.score, now)
    IN  /\ ~saved.threw
        /\ WriteThrows(scores) => ~saved.result /\ scores' = scores
        /\ ReadThrows(scores) /\ ~WriteThrows(scores) =>
              /\ saved.result = (state.score > 0)
              /\ saved.result =>
                    getHighScore(scores', state.settings) = state.score
              /\ ~saved.result => scores' = scores

\* C12 (amended): with a failing store getHighScore is 0 when the read
\* fails; a game-over transition (last life lost, time run out) gives the
\* same game state as with a working store, and its saveHighScore call
\* recovers as SaveRecovered says.
C12_StoreFailureRecovered ==
    /\ [](\A settings \in FaultyEnv.settings :
             ReadThrows(scores) => getHighScore(scores, settings) = 0)
    /\ [][/\ \A answerId \in FaultyEnv.answerIds :
                /\ Playing
                /\ state.lives = 1
                /\ FindAnswer(state, answerId) # Null
                /\ ~FindAnswer(state, answerId).isCorrect
                /\ HIT_ANSWER(answerId, FaultyEnv)
                => state' = WrongHit(state) /\ GameOver' /\ SaveRecovered
           /\ \A deltaTime \in FaultyEnv.deltaTimes :
                /\ Playing
                /\ TimeRanOut(state, deltaTime)
                /\ UPDATE_TIMER(deltaTime)
                => state' = TimerState(state, deltaTime) /\ GameOver' /\ SaveRecovered]_vars

\* A game that ended with a score above the stored best which the store did
\* not take.
C12_Witness ==
    /\ GameOver
    /\ WriteThrows(scores)
    /\ state.score > getHighScore(scores, state.settings)
    /\ state.score > 0

\* C19: SHOOT while playing appends one bullet at the end of the list, at
\* x = playerX, y = GAME_HEIGHT - PLAYER_SIZE - 10 = 530, with speed
\* BULLET_SPEED = 8, and changes nothing else.
C19_ShootAppendsOneBullet ==
    [][Playing /\ SHOOT(FlightEnv) =>
          /\ GAME_HEIGHT - PLAYER_SIZE - 10 = 530
          /\ state' = [state EXCEPT !.bullets =
                          state.bullets \o <<[id |-> BulletId(now),
                                              x |-> state.playerX,
                                              y |-> 530,
                                              speed |-> 8]>>]]_vars

\* A second bullet shot while the first is at the top of the field.
C19_Witness ==
    /\ Playing
    /\ Len(state.bullets) = 2
    /\ state.bullets[1].y <= 18
    /\ state.bullets[2].y = 530
    /\ state.bullets[2].x = state.playerX

\* C20: UPDATE_BULLETS takes 8 from the y of every bullet, keeps x and the
\* order, drops exactly the bullets whose new y is not above 0, and changes
\* nothing else; every bullet of every state has 0 < y <= 530.
C20_BulletsMoveAndLeave ==
    /\ [](\A i \in 1..Len(state.bullets) :
             state.bullets[i].y > 0 /\ state.bullets[i].y <= 530)
    /\ [][UPDATE_BULLETS(FlightEnv) =>
             LET old == state.bullets
                 new == state'.bullets
                 kept == {i \in 1..Len(old) : old[i].y - 8 > 0}
             IN  /\ [state' EXCEPT !.bullets = old] = state
                 /\ Len(new) = Cardinality(kept)
                 /\ \E f \in [1..Len(new) -> kept] :
                       /\ \A k, l \in 1..Len(new) : k < l => f[k] < f[l]
                       /\ \A k \in 1..Len(new) :
                             new[k] = [old[f[k]] EXCEPT !.y = old[f[k]].y - 8]]_vars

\* Of two bullets the first has left the field and the second has moved up.
C20_Witness ==
    /\ Playing
    /\ state.bullets = <<Bullet(-1, 400, 2)>>

\* The ids of a list of bullets or answers are pairwise distinct.
UniqueIds(list) ==
    \A i, j \in 1..Len(list) : i # j => list[i].id # list[j].id

\* C21: the bullets of a state have pairwise distinct ids, and so have its
\* answers.
C21_IdsUnique ==
    UniqueIds(state.bullets) /\ UniqueIds(state.fallingAnswers)

\* C22: every action that puts a problem and its answers into the state
\* (START_GAME, a correct HIT_ANSWER, NEXT_PROBLEM) leaves showingAnswer
\* false.
C22_NewProblemNotRevealed ==
    [][/\ \A settings \in GameEnv.settings :
             START_GAME(settings, GameEnv) => ~state'.showingAnswer
       /\ state.settings # Null /\ NEXT_PROBLEM(GameEnv) => ~state'.showingAnswer
       /\ \A answerId \in GameEnv.answerIds :
             /\ state.settings # Null
             /\ FindAnswer(state, answerId) # Null
             /\ FindAnswer(state, answerId).isCorrect
             /\ HIT_ANSWER(answerId, GameEnv)
             => ~state'.showingAnswer]_vars

\* C23: every game ends.  A game under way is over or left for the menu at
\* some later time when frames with elapsed time keep coming, and
\* timeRemaining never goes up while a game stays under way.
C23_EveryGameEnds ==
    /\ Playing ~> ~Playing
    /\ [][Playing /\ state'.status = "playing"
             => state'.timeRemaining <= state.timeRemaining]_vars

\* A game that was played with a correct and a wrong answer and ended by
\* the clock.
C23_Witness ==
    /\ GameOver
    /\ state.timeRemaining = 0
    /\ hist.timeouts = 1
    /\ hist.correct = 1
    /\ hist.wrong >= 1

\* A frame has just resolved a correct hit while an answer was being shown:
\* the answer named by hist.hit is the correct one of the list in the state,
\* which a wrong hit would have left as it was.
CorrectHitInReveal ==
    /\ Playing
    /\ state.showingAnswer
    /\ hist.hit # "none"
    /\ FindAnswer(state, hist.hit) # Null
    /\ FindAnswer(state, hist.hit).isCorrect

\* C24: every reveal ends.  When an answer is shown in a game under way,
\* at some later time no answer is shown or the game is not under way, also
\* after a correct hit during the reveal; and in a game that stays under way
\* the reveal ends by the timeout only, which applies NEXT_PROBLEM.
C24_EveryRevealEnds ==
    /\ (Playing /\ state.showingAnswer) ~> (~state.showingAnswer \/ ~Playing)
    /\ CorrectHitInReveal ~> (~state.showingAnswer \/ ~Playing)
    /\ [](Playing /\ state.showingAnswer => hook.timer = "armed")
    /\ [][Playing /\ state.showingAnswer
             /\ state'.status = "playing" /\ ~state'.showingAnswer
             => /\ hook.timer = "armed"
                /\ NEXT_PROBLEM(LiveEnv)
                /\ hook'.timer = "off"]_vars

\* A reveal that saw a further wrong hit and a correct hit has ended in a
\* game that is still under way.
C24_Witness ==
    /\ Playing
    /\ ~state.showingAnswer
    /\ hook.timer = "off"
    /\ hist.wrong = 2
    /\ hist.correct = 1
    /\ state.bullets = <<>>

---------------------------------------------------------------------------
(* Properties of the hook                                                  *)

C15_CollisionsSeeThisFrame ==
    [][hook.frame /\ gameLoop(HookEnv) =>
          hook'.hits = Collisions(MovedBullets(state.bullets),
                                  state.fallingAnswers)]_vars

\* What the HIT_ANSWER actions hits of one frame must be for the bullets and
\* answers the collision check read: no answer twice; the hits belong to
\* different bullets, in bullet order; each is the first answer in list order
\* within reach of its bullet that no earlier hit of the frame took; and a
\* bullet without a hit has no such answer.
TieBreak(bullets, answers, hits) ==
    /\ \A k, l \in 1..Len(hits) : k # l => hits[k] # hits[l]
    /\ \E f \in [1..Len(hits) -> 1..Len(bullets)] :
          /\ \A k, l \in 1..Len(hits) : k < l => f[k] < f[l]
          /\ \A k \in 1..Len(hits) :
                LET free == {j \in 1..Len(answers) :
                               /\ Near(bullets[f[k]], answers[j])
                               /\ \A m \in 1..(k - 1) : answers[j].id # hits[m]}
                IN  \E j \in free : /\ hits[k] = answers[j].id
                                     /\ \A j2 \in free : j <= j2
          /\ \A i \in 1..Len(bullets) :
                (\A k \in 1..Len(hits) : f[k] # i) =>
                    \A j \in 1..Len(answers) :
                        Near(bullets[i], answers[j]) =>
                            \E k \in 1..Len(hits) :
                                f[k] < i /\ hits[k] = answers[j].id

\* C16: in one frame an answer gets at most one HIT_ANSWER, a bullet causes
\* at most one, and a bullet's hit goes to the first answer in list order
\* within its reach that was not hit earlier in the frame.
C16_CollisionTieBreak ==
    [][hook.frame /\ gameLoop(HookEnv) =>
          TieBreak(state.bullets, state.fallingAnswers, hook'.hits)]_vars

\* A frame found two bullets within reach of an answer and dispatched one
\* HIT_ANSWER.
C16_Witness ==
    /\ hook.near = 2
    /\ Len(hook.hits) = 1

\* C17: while the status stays gameOver, score, lives, currentProblem and the
\* answers stay as they are; and the frame in which the time runs out leaves
\* them as they were, whatever else it dispatches.
C17_GameOverIsFinal ==
    [][/\ GameOver /\ state'.status = "gameOver" =>
             /\ state'.score = state.score
             /\ state'.lives = state.lives
             /\ state'.currentProblem = state.currentProblem
             /\ state'.fallingAnswers = state.fallingAnswers
       /\ \A deltaTime \in HookEnv.deltaTimes :
             /\ Playing
             /\ TimeRanOut(state, deltaTime)
             /\ state'.timeRemaining = 0
             /\ gameLoop(HookEnv)
             => /\ state'.score = state.score
                /\ state'.lives = state.lives
                /\ state'.currentProblem = state.currentProblem
                /\ state'.fallingAnswers = state.fallingAnswers]_vars

---------------------------------------------------------------------------
(* Properties of the high-score store                                      *)

\* C9: saveHighScore(settings, score) returns true exactly when score is
\* greater than the best stored under the settings' key (0 if none), and
\* getHighScore(settings) is then score; otherwise the store is unchanged.
\* No stored best decreases, every other valid configuration has another key
\* and keeps its stored best.
C9_SaveHighScore ==
    [][\A settings \in StoreSettings, score \in StoreScores :
          SAVE_HIGH_SCORE(settings, score) =>
             LET best == getHighScore(scores, settings)
             IN  /\ hist'.result = (score > best)
                 /\ hist'.result => getHighScore(scores', settings) = score
                 /\ ~hist'.result => scores' = scores
                 /\ \A k \in DOMAIN scores :
                       k \in DOMAIN scores' /\ scores'[k].score >= scores[k].score
                 /\ \A other \in ValidSettings \ {settings} :
                       /\ ScoreKeys[other] # ScoreKeys[settings]
                       /\ StoredScore(scores', ScoreKeys[other]) =
                          StoredScore(scores, ScoreKeys[other])]_vars

\* A save that was turned down, and one that was recorded, with the bests of
\* two configurations in the store.
C9_Witness ==
    /\ "call" \in DOMAIN hist
    /\ ~hist.result
    /\ hist.score > 0
    /\ Cardinality(DOMAIN scores) >= 2
    /\ getHighScore(scores, hist.settings) > hist.score

=============================================================================
